---- MODULE Spec2Model ----
(***************************************************************************)
(* Model of the rush-lib phased-command hooks (PhasedCommandHooks.ts) and  *)
(* of the ConsoleTimelinePlugin (_printTimeline), which reconstructs the   *)
(* realized parallelism of a finished execution result and renders the    *)
(* timeline chart and its summary.                                         *)
(***************************************************************************)
EXTENDS Integers, Sequences, FiniteSets, TLC

(***************************************************************************)
(* Bounds of the model.                                                    *)
(***************************************************************************)
MaxOps == 3
MaxTime == 3
GatherOps == 2
ChartOps == 2
MaxHandlers == 3

(***************************************************************************)
(* JavaScript numbers.  A number is the extended fraction n/d: d > 0 is a  *)
(* finite value, 1/0 is Infinity, -1/0 is -Infinity and 0/0 is NaN.  The   *)
(* sign of a zero is not kept (no modelled operation observes it).         *)
(***************************************************************************)
Num(k) == [n |-> k, d |-> 1]
Rat(k, m) == [n |-> k, d |-> m]
NaN == [n |-> 0, d |-> 0]
PosInfinity == [n |-> 1, d |-> 0]
NegInfinity == [n |-> -1, d |-> 0]

IsNaN(x) == x.d = 0 /\ x.n = 0
IsInfinite(x) == x.d = 0 /\ x.n # 0
IsFinite(x) == x.d > 0
Sign(k) == IF k > 0 THEN 1 ELSE IF k < 0 THEN -1 ELSE 0
JsNeg(x) == [n |-> 0 - x.n, d |-> x.d]

JsAdd(a, b) ==
    IF IsNaN(a) \/ IsNaN(b) THEN NaN
    ELSE IF IsInfinite(a) THEN (IF IsInfinite(b) /\ b.n # a.n THEN NaN ELSE a)
    ELSE IF IsInfinite(b) THEN b
    ELSE IF a.d = b.d THEN [n |-> a.n + b.n, d |-> a.d]
    ELSE [n |-> a.n * b.d + b.n * a.d, d |-> a.d * b.d]

JsSub(a, b) == JsAdd(a, JsNeg(b))

JsMul(a, b) ==
    IF IsNaN(a) \/ IsNaN(b) THEN NaN
    ELSE IF IsInfinite(a) \/ IsInfinite(b)
         THEN (IF a.n = 0 \/ b.n = 0 THEN NaN ELSE [n |-> Sign(a.n) * Sign(b.n), d |-> 0])
    ELSE [n |-> a.n * b.n, d |-> a.d * b.d]

JsDiv(a, b) ==
    IF IsNaN(a) \/ IsNaN(b) THEN NaN
    ELSE IF IsInfinite(a) THEN (IF IsInfinite(b) THEN NaN
                                ELSE [n |-> a.n * (IF b.n < 0 THEN -1 ELSE 1), d |-> 0])
    ELSE IF IsInfinite(b) THEN Num(0)
    ELSE IF b.n = 0 THEN (IF a.n = 0 THEN NaN ELSE [n |-> Sign(a.n), d |-> 0])
    ELSE [n |-> a.n * b.d * Sign(b.n), d |-> a.d * b.n * Sign(b.n)]

\* Math.floor
JsFloor(x) == IF IsFinite(x) THEN Num(x.n \div x.d) ELSE x

\* a < b and a <= b; every comparison with NaN is false
JsLt(a, b) ==
    IF IsNaN(a) \/ IsNaN(b) THEN FALSE
    ELSE IF IsInfinite(a) THEN a.n < 0 /\ ~(IsInfinite(b) /\ b.n < 0)
    ELSE IF IsInfinite(b) THEN b.n > 0
    ELSE a.n * b.d < b.n * a.d

JsLe(a, b) ==
    IF IsNaN(a) \/ IsNaN(b) THEN FALSE
    ELSE IF IsInfinite(a) /\ IsInfinite(b) THEN a.n <= b.n
    ELSE IF IsInfinite(a) THEN a.n < 0
    ELSE IF IsInfinite(b) THEN b.n > 0
    ELSE a.n * b.d <= b.n * a.d

\* An optional value: <<>> is undefined, <<v>> is the value v.
Undefined == <<>>
Some(v) == <<v>>
\* JavaScript truthiness of an optional number: undefined and 0 are falsy.
Truthy(x) == x # Undefined /\ x[1] # 0

(***************************************************************************)
(* Helpers on sequences and maps.                                          *)
(***************************************************************************)
RECURSIVE SeqsUpTo(_, _)
SeqsUpTo(S, k) ==
    IF k = 0 THEN {<<>>}
    ELSE LET shorter == SeqsUpTo(S, k - 1)
         IN  shorter \cup {Append(q, x) : q \in {r \in shorter : Len(r) = k - 1}, x \in S}

RECURSIVE NumDigits(_)
NumDigits(k) == IF k < 10 THEN 1 ELSE 1 + NumDigits(k \div 10)

\* Length of x.toFixed(1) for a finite x: sign, integer digits, point, one decimal.
ToFixed1Length(x) ==
    LET mag    == IF x.n < 0 THEN 0 - x.n ELSE x.n
        tenths == (2 * 10 * mag + x.d) \div (2 * x.d)
    IN  (IF x.n < 0 /\ tenths > 0 THEN 1 ELSE 0) + NumDigits(tenths \div 10) + 2

(***************************************************************************)
(* Constants of ConsoleTimelinePlugin.                                     *)
(***************************************************************************)
TIMELINE_WIDTH == 109

TIMELINE_CHART_SYMBOLS ==
    [Ready |-> "?", Executing |-> "?", Success |-> "#", SuccessWithWarning |-> "!",
     Failure |-> "!", Blocked |-> ".", Skipped |-> "%", FromCache |-> "%", NoOp |-> "%"]

NoPhase == "undefined"
Phases == {"_phase:build", "_phase:test"}

(***************************************************************************)
(* State.                                                                  *)
(***************************************************************************)
VARIABLES
    operationResults,       \* result.operationResults, in the map's iteration order
    consoleWidth,           \* PrintUtilities.getConsoleWidth(): undefined or a width
    tapped,                 \* the plugin's handler is tapped on afterExecuteOperations
    pc,                     \* position of the handler
    opIdx,                  \* next entry of the gather loop / next record of the row loop
    data,                   \* ITimelineRecord[]
    longestNameLength,
    longestDurationLength,
    allStart,
    allEnd,
    workDuration,
    durationByPhase,        \* Map<IPhase, number>
    busyCpus,
    lastCounts,             \* startIdx, length, chartWidth - endIdx of the current row
    out,                    \* lines written to the terminal
    error,                  \* the exception the handler raised, if any
    handlers,               \* taps of createOperations, in registration order
    hookPc,                 \* position of a createOperations call
    hookIdx,                \* next tap to run
    operations,             \* the operation set threaded through the taps
    context,                \* the ICreateOperationsContext of the call
    initialOperations,      \* the operation set the call was made with
    calls                   \* the taps run so far, with what each was given

VARIABLES
    dependencies,           \* the operations each operation depends on
    concurrency,            \* number of execution slots
    status,                 \* OperationStatus of each operation's result
    enginePc,               \* position of the cycle
    statusHandlers,         \* taps of onOperationStatusChanged, in registration order
    fired,                  \* the calls of onOperationStatusChanged, in order
    statusEvents            \* the handler invocations of those calls, in order

VARIABLES
    configFile,             \* what config/heft.json of the project says
    heftConfigFileLoader,   \* CoreConfigFiles._heftConfigFileLoader is set
    loaderConstructions,    \* how many ConfigurationFile loaders were constructed
    loaderCache,            \* the configuration object the loader has cached, if any
    configObjects,          \* the configuration objects the loader has produced
    loads                   \* the calls of loadHeftConfigurationFileForProjectAsync

engineVars ==
    <<dependencies, concurrency, status, enginePc, statusHandlers, fired, statusEvents>>
configVars ==
    <<configFile, heftConfigFileLoader, loaderConstructions, loaderCache, configObjects,
      loads>>

timelineVars ==
    <<operationResults, consoleWidth, tapped, pc, opIdx, data, longestNameLength,
      longestDurationLength, allStart, allEnd, workDuration, durationByPhase,
      busyCpus, lastCounts, out, error>>
hookVars == <<handlers, hookPc, hookIdx, operations, context, initialOperations, calls>>
vars == <<timelineVars, hookVars, engineVars, configVars>>

\* Stopwatch.duration, in seconds, of a stopwatch with both timestamps (milliseconds)
StopwatchDuration(startTime, endTime) == Rat(endTime - startTime, 1000)

\* const allDuration = allEnd - allStart; const allDurationSeconds = allDuration / 1000
allDuration == JsSub(allEnd, allStart)
allDurationSeconds == JsDiv(allDuration, Num(1000))

\* const maxWidth = PrintUtilities.getConsoleWidth() || TIMELINE_WIDTH
maxWidth == IF Truthy(consoleWidth) THEN consoleWidth[1] ELSE TIMELINE_WIDTH
chartWidth == maxWidth - longestNameLength - longestDurationLength - 4

\* if (operation.runner?.silent) continue; ... if (startTime && endTime) { ... }
Gathered(op) == ~op.silent /\ Truthy(op.startTime) /\ Truthy(op.endTime)

Max(a, b) == IF a > b THEN a ELSE b

\* Map<IPhase, number>: the entries in insertion order
PhaseHas(map, phase) == \E k \in 1..Len(map) : map[k].phase = phase

\* durationByPhase.set(phase, duration): the total so far is dropped
PhaseAddOverwrite(map, phase, duration) ==
    IF PhaseHas(map, phase)
    THEN [k \in 1..Len(map) |->
            IF map[k].phase = phase THEN [phase |-> phase, total |-> duration] ELSE map[k]]
    ELSE Append(map, [phase |-> phase, total |-> duration])

\* durationByPhase.set(phase, (durationByPhase.get(phase) || 0) + duration)
PhaseAdd(map, phase, duration) ==
    IF PhaseHas(map, phase)
    THEN [k \in 1..Len(map) |->
            IF map[k].phase = phase
            THEN [phase |-> phase, total |-> JsAdd(map[k].total, duration)]
            ELSE map[k]]
    ELSE Append(map, [phase |-> phase, total |-> JsAdd(Num(0), duration)])

\* if (endTime > allEnd) { allEnd = endTime; }
NewAllEnd(end, endTime) == IF JsLt(end, Num(endTime)) THEN Num(endTime) ELSE end

\* the comparison of allStart turned around
NewAllStartTurned(start, startTime) == IF JsLt(start, Num(startTime)) THEN Num(startTime) ELSE start

\* if (startTime < allStart) { allStart = startTime; }
NewAllStart(start, startTime) == IF JsLt(Num(startTime), start) THEN Num(startTime) ELSE start

\* One iteration of the gather loop over result.operationResults.
GatherOperation ==
    /\ pc = "gather"
    /\ opIdx <= Len(operationResults)
    /\ LET op == operationResults[opIdx]
       IN  IF Gathered(op)
           THEN LET startTime  == op.startTime[1]
                    endTime    == op.endTime[1]
                    nameLength == IF op.name = Undefined THEN 0 ELSE op.name[1]
                    duration   == StopwatchDuration(startTime, endTime)
                IN  /\ longestNameLength' = Max(nameLength, longestNameLength)
                    /\ longestDurationLength' =
                           Max(ToFixed1Length(duration), longestDurationLength)
                    /\ allEnd' = NewAllEnd(allEnd, endTime)
                    /\ allStart' = NewAllStart(allStart, startTime)
                    /\ workDuration' = JsAdd(workDuration, duration)
                    /\ durationByPhase' =
                           IF op.phase # NoPhase
                           THEN PhaseAdd(durationByPhase, op.phase, duration)
                           ELSE durationByPhase
                    /\ data' = Append(data,
                           [startTime |-> startTime, endTime |-> endTime,
                            duration |-> duration, name |-> op.name,
                            status |-> op.status])
           ELSE UNCHANGED <<longestNameLength, longestDurationLength, allEnd, allStart,
                            workDuration, durationByPhase, data>>
    /\ opIdx' = opIdx + 1
    /\ UNCHANGED <<operationResults, consoleWidth, tapped, pc, busyCpus, lastCounts,
                   out, error, hookVars, engineVars, configVars>>

\* data.sort((a, b) => a.startTime - b.startTime): a stable sort by start time
RECURSIVE InsertByStart(_, _)
InsertByStart(sorted, rec) ==
    IF sorted = <<>> THEN <<rec>>
    ELSE IF sorted[Len(sorted)].startTime - rec.startTime <= 0
         THEN Append(sorted, rec)
         ELSE Append(InsertByStart(SubSeq(sorted, 1, Len(sorted) - 1), rec),
                     sorted[Len(sorted)])

\* the records left in the iteration order of the map
Unsorted(records) == records

RECURSIVE SortByStart(_)
SortByStart(records) ==
    IF records = <<>> THEN <<>>
    ELSE InsertByStart(SortByStart(SubSeq(records, 1, Len(records) - 1)),
                       records[Len(records)])

\* A line written to the terminal: what it is, the value it prints, and for a
\* timeline row the three fills of the chart and the length of the line.
Line(kind, val) == [kind |-> kind, val |-> val, glyph |-> "", fills |-> <<>>, width |-> 0]

\* The gather loop is over: sort the records and write the top of the report.
SortAndHeader ==
    /\ pc = "gather"
    /\ opIdx > Len(operationResults)
    /\ data' = SortByStart(data)
    /\ out' = out \o <<Line("blank", Num(0)), Line("rule", Num(maxWidth))>>
    /\ pc' = "rows"
    /\ opIdx' = 1
    /\ UNCHANGED <<operationResults, consoleWidth, tapped, longestNameLength,
                   longestDurationLength, allStart, allEnd, workDuration,
                   durationByPhase, busyCpus, lastCounts, error, hookVars, engineVars, configVars>>

\* getOpenCPU with the test busyCpus[i] < time
getOpenCPUStrict(cpus, time) ==
    IF \E k \in 1..Len(cpus) : cpus[k] < time
    THEN CHOOSE k \in 1..Len(cpus) :
            /\ cpus[k] < time
            /\ \A j \in 1..(k - 1) : ~(cpus[j] < time)
    ELSE Len(cpus) + 1

\* function getOpenCPU(time)
getOpenCPU(cpus, time) ==
    IF \E k \in 1..Len(cpus) : cpus[k] <= time
    THEN CHOOSE k \in 1..Len(cpus) :
            /\ cpus[k] <= time
            /\ \A j \in 1..(k - 1) : ~(cpus[j] <= time)
    ELSE Len(cpus) + 1

\* busyCpus[openCpu] = endTime
SetCpu(cpus, openCpu, endTime) ==
    IF openCpu <= Len(cpus) THEN [cpus EXCEPT ![openCpu] = endTime]
    ELSE Append(cpus, endTime)

\* the column index taken from the timestamp instead of its offset from allStart
ChartIdxNoOffset(time) ==
    JsFloor(JsDiv(JsMul(Num(time), Num(chartWidth)), allDuration))

\* Math.floor(((time - allStart) * chartWidth) / allDuration)
ChartIdx(time) ==
    JsFloor(JsDiv(JsMul(JsSub(Num(time), allStart), Num(chartWidth)), allDuration))

\* String.prototype.repeat(count): NaN counts as 0; a negative or infinite
\* count is a RangeError.
RepeatThrows(count) == IsInfinite(count) \/ (IsFinite(count) /\ count.n < 0)
RepeatLength(count) == IF IsNaN(count) THEN 0 ELSE count.n \div count.d

\* One iteration of the row loop over the sorted records.
PrintRow ==
    /\ pc = "rows"
    /\ opIdx <= Len(data)
    /\ LET rec      == data[opIdx]
           openCpu  == getOpenCPU(busyCpus, rec.startTime)
           startIdx == ChartIdx(rec.startTime)
           endIdx   == ChartIdx(rec.endTime)
           length   == JsAdd(JsSub(endIdx, startIdx), Num(1))
           tail     == JsSub(Num(chartWidth), endIdx)
           counts   == <<startIdx, length, tail>>
       IN  /\ busyCpus' = SetCpu(busyCpus, openCpu, rec.endTime)
           /\ lastCounts' = counts
           /\ IF \E k \in 1..3 : RepeatThrows(counts[k])
              THEN /\ pc' = "threw"
                   /\ error' = "RangeError"
                   /\ UNCHANGED <<out, opIdx>>
              ELSE IF rec.name = Undefined
              THEN \* name.padStart of an undefined name
                   /\ pc' = "threw"
                   /\ error' = "TypeError"
                   /\ UNCHANGED <<out, opIdx>>
              ELSE LET fills == [k \in 1..3 |-> RepeatLength(counts[k])]
                   IN  /\ out' = Append(out,
                              [kind  |-> "row",
                               val   |-> rec.duration,
                               glyph |-> TIMELINE_CHART_SYMBOLS[rec.status],
                               fills |-> fills,
                               width |-> longestNameLength + 1
                                         + fills[1] + fills[2] + fills[3] + 1
                                         + longestDurationLength + 1])
                       /\ opIdx' = opIdx + 1
                       /\ UNCHANGED <<pc, error>>
    /\ UNCHANGED <<operationResults, consoleWidth, tapped, data, longestNameLength,
                   longestDurationLength, allStart, allEnd, workDuration,
                   durationByPhase, hookVars, engineVars, configVars>>

\* The row loop is over: write the legend, the summary and the phase totals.
PrintSummary ==
    /\ pc = "rows"
    /\ opIdx > Len(data)
    /\ LET usedCpus == Len(busyCpus)
           byPhase  == IF Len(durationByPhase) > 0
                       THEN <<Line("byPhase", Num(0))>> \o
                            [k \in 1..Len(durationByPhase) |->
                                Line(durationByPhase[k].phase, durationByPhase[k].total)]
                       ELSE <<>>
       IN  out' = out \o
                  <<Line("rule", Num(maxWidth)),
                    Line("totalWork", workDuration),
                    Line("wallClock", allDurationSeconds),
                    Line("maxParallelism", Num(usedCpus)),
                    Line("avgParallelism", JsDiv(workDuration, allDurationSeconds))>>
                  \o byPhase \o <<Line("blank", Num(0))>>
    /\ pc' = "done"
    /\ UNCHANGED <<operationResults, consoleWidth, tapped, opIdx, data,
                   longestNameLength, longestDurationLength, allStart, allEnd,
                   workDuration, durationByPhase, busyCpus, lastCounts, error, hookVars, engineVars, configVars>>

\* ConsoleTimelinePlugin.apply: tap the handler on afterExecuteOperations.
Apply ==
    /\ ~tapped
    /\ tapped' = TRUE
    /\ UNCHANGED <<operationResults, consoleWidth, pc, opIdx, data, longestNameLength,
                   longestDurationLength, allStart, allEnd, workDuration,
                   durationByPhase, busyCpus, lastCounts, out, error, hookVars, engineVars, configVars>>

\* afterExecuteOperations is called with the result: the tapped handler
\* enters _printTimeline.
AfterExecuteOperations ==
    /\ tapped
    /\ pc = "idle"
    /\ pc' = "gather"
    /\ UNCHANGED <<operationResults, consoleWidth, tapped, opIdx, data,
                   longestNameLength, longestDurationLength, allStart, allEnd,
                   workDuration, durationByPhase, busyCpus, lastCounts, out, error,
                   hookVars, engineVars, configVars>>

(***************************************************************************)
(* PhasedCommandHooks.createOperations: an AsyncSeriesWaterfallHook.  The  *)
(* dispatch routine is the sequential await-and-replace loop: each tap is  *)
(* given the operation set the previous tap returned, and the context.     *)
(***************************************************************************)
OperationNames == {"a", "b", "c"}
Contexts == {[isInitial |-> TRUE], [isInitial |-> FALSE]}
HandlerKinds == {"addA", "dropA", "addBIfA", "addCIfInitial"}

\* What a tapped handler returns for the set and the context it is given.
RunHandler(h, ops, ctx) ==
    CASE h = "addA"          -> ops \cup {"a"}
      [] h = "dropA"         -> ops \ {"a"}
      [] h = "addBIfA"       -> IF "a" \in ops THEN ops \cup {"b"} ELSE ops
      [] h = "addCIfInitial" -> IF ctx.isInitial THEN ops \cup {"c"} ELSE ops

\* A dispatch that runs the taps in series and keeps the set it was called with
SeriesStep(h, ops, ctx) == ops

\* The await-and-replace step of the waterfall: the tap's result becomes the set.
WaterfallStep(h, ops, ctx) == RunHandler(h, ops, ctx)

\* createOperations.tap(name, handler) / tapPromise
Tap(h) ==
    /\ hookPc = "idle"
    /\ Len(handlers) < MaxHandlers
    /\ handlers' = Append(handlers, h)
    /\ UNCHANGED <<hookPc, hookIdx, operations, context, initialOperations, calls,
                   timelineVars, engineVars, configVars>>

\* createOperations.promise(operations, context)
CallCreateOperations(ops, ctx) ==
    /\ hookPc = "idle"
    /\ hookPc' = "running"
    /\ hookIdx' = 1
    /\ operations' = ops
    /\ initialOperations' = ops
    /\ context' = ctx
    /\ calls' = <<>>
    /\ UNCHANGED <<handlers, timelineVars, engineVars, configVars>>

\* The waterfall runs the next tap and replaces the accumulated set by its result.
RunTap ==
    /\ hookPc = "running"
    /\ hookIdx <= Len(handlers)
    /\ calls' = Append(calls, [handler |-> hookIdx, given |-> operations,
                               context |-> context])
    /\ operations' = WaterfallStep(handlers[hookIdx], operations, context)
    /\ hookIdx' = hookIdx + 1
    /\ UNCHANGED <<handlers, hookPc, context, initialOperations, timelineVars, engineVars, configVars>>

\* Every tap has run: the call resolves with the accumulated set.
ReturnOperations ==
    /\ hookPc = "running"
    /\ hookIdx > Len(handlers)
    /\ hookPc' = "returned"
    /\ UNCHANGED <<handlers, hookIdx, operations, context, initialOperations, calls,
                   timelineVars, engineVars, configVars>>

\* The cycle is over; in watch mode the next cycle calls the hook again.
NextCycle ==
    /\ hookPc = "returned"
    /\ hookPc' = "idle"
    /\ UNCHANGED <<handlers, hookIdx, operations, context, initialOperations, calls,
                   timelineVars, engineVars, configVars>>

(***************************************************************************)
(* The execution engine and PhasedCommandHooks.onOperationStatusChanged,   *)
(* a SyncHook: every status transition of an operation calls the hook      *)
(* once, and the hook runs its taps inline, in registration order.         *)
(***************************************************************************)
MaxEngineOps == 2
MaxStatusHandlers == 2
EngineOps == 1..MaxEngineOps
StatusHandlerNames == {"log", "telemetry"}
RunnerResults == {"Success", "SuccessWithWarning", "Failure", "Skipped", "FromCache", "NoOp"}
TerminalStatuses == RunnerResults \cup {"Blocked"}

\* Terminal statuses that let the dependents of an operation start; the
\* variant counts a failed dependency as satisfied.
SatisfiedOrFailed == {"Success", "SuccessWithWarning", "Failure", "Skipped", "FromCache", "NoOp"}
SatisfiedStatuses == {"Success", "SuccessWithWarning", "Skipped", "FromCache", "NoOp"}
BlockingStatuses == {"Failure", "Blocked"}

\* Acyclic dependency graphs: an operation depends on operations created before it.
DependencyGraphs == {g \in [EngineOps -> SUBSET EngineOps] : \A o \in EngineOps : g[o] \subseteq 1..(o - 1)}

\* onOperationStatusChanged.call(record): the taps run inline, in registration order
FireStatusChanged(o, s) ==
    /\ fired' = Append(fired, [op |-> o, status |-> s])
    /\ statusEvents' = statusEvents \o
           [k \in 1..Len(statusHandlers) |->
               [handler |-> statusHandlers[k], op |-> o, status |-> s]]

\* onOperationStatusChanged.tap(name, handler)
TapStatusChanged(h) ==
    /\ enginePc = "idle"
    /\ Len(statusHandlers) < MaxStatusHandlers
    /\ statusHandlers' = Append(statusHandlers, h)
    /\ UNCHANGED <<dependencies, concurrency, status, enginePc, fired, statusEvents,
                   timelineVars, hookVars, configVars>>

\* The cycle starts (beforeExecuteOperations has fired).
BeginCycle ==
    /\ enginePc = "idle"
    /\ enginePc' = "running"
    /\ UNCHANGED <<dependencies, concurrency, status, statusHandlers, fired, statusEvents,
                   timelineVars, hookVars, configVars>>

\* Ready -> Executing: every dependency is satisfied and a slot is free.
StartOperation(o) ==
    /\ enginePc = "running"
    /\ status[o] = "Ready"
    /\ \A d \in dependencies[o] : status[d] \in SatisfiedStatuses
    /\ Cardinality({x \in EngineOps : status[x] = "Executing"}) < concurrency
    /\ status' = [status EXCEPT ![o] = "Executing"]
    /\ FireStatusChanged(o, "Executing")
    /\ UNCHANGED <<dependencies, concurrency, enginePc, statusHandlers,
                   timelineVars, hookVars, configVars>>

\* Executing -> the status the runner completes with.
CompleteOperation(o, s) ==
    /\ enginePc = "running"
    /\ status[o] = "Executing"
    /\ status' = [status EXCEPT ![o] = s]
    /\ FireStatusChanged(o, s)
    /\ UNCHANGED <<dependencies, concurrency, enginePc, statusHandlers,
                   timelineVars, hookVars, configVars>>

\* Ready -> Blocked: a dependency ended in Failure or Blocked.
BlockOperation(o) ==
    /\ enginePc = "running"
    /\ status[o] = "Ready"
    /\ \E d \in dependencies[o] : status[d] \in BlockingStatuses
    /\ status' = [status EXCEPT ![o] = "Blocked"]
    /\ FireStatusChanged(o, "Blocked")
    /\ UNCHANGED <<dependencies, concurrency, enginePc, statusHandlers,
                   timelineVars, hookVars, configVars>>

\* Every operation is terminal: the cycle ends (afterExecuteOperations fires).
FinishCycle ==
    /\ enginePc = "running"
    /\ \A o \in EngineOps : status[o] \in TerminalStatuses
    /\ enginePc' = "finished"
    /\ UNCHANGED <<dependencies, concurrency, status, statusHandlers, fired, statusEvents,
                   timelineVars, hookVars, configVars>>

InitEngine(graphs, slots) ==
    /\ dependencies \in graphs
    /\ concurrency \in slots
    /\ status = [o \in EngineOps |-> "Ready"]
    /\ enginePc = "idle"
    /\ statusHandlers = <<>>
    /\ fired = <<>>
    /\ statusEvents = <<>>

NextEngine ==
    \/ \E h \in StatusHandlerNames : TapStatusChanged(h)
    \/ BeginCycle
    \/ \E o \in EngineOps : StartOperation(o)
    \/ \E o \in EngineOps, s \in RunnerResults : CompleteOperation(o, s)
    \/ \E o \in EngineOps : BlockOperation(o)
    \/ FinishCycle

(***************************************************************************)
(* CoreConfigFiles.loadHeftConfigurationFileForProjectAsync.  A plugin     *)
(* specifier of a configuration object carries pluginPackage,              *)
(* pluginPackageRoot and the value the loader keeps as the original one.   *)
(***************************************************************************)
MaxLoads == 2
MaxPlugins == 1
MaxPhases == 1
MaxTasks == 1
PackageNames == {"heft-jest-plugin", "heft-lint-plugin"}

\* Import.resolvePackage({ packageName, baseFolderPath }): the root folder of the package
ResolvePackage(packageName) ==
    CASE packageName = "heft-jest-plugin" -> "/repo/node_modules/heft-jest-plugin"
      [] packageName = "heft-lint-plugin" -> "/repo/node_modules/heft-lint-plugin"

\* config/heft.json files: heftPlugins, and for every task of every phase its
\* taskPlugin, if any, each naming its pluginPackage.
ConfigFiles ==
    [heftPlugins : SeqsUpTo(PackageNames, MaxPlugins),
     phasesByName : SeqsUpTo(SeqsUpTo({Undefined} \cup {Some(n) : n \in PackageNames},
                                      MaxTasks), MaxPhases)]

\* The loader resolves '$.heftPlugins.*.pluginPackage' and
\* '$...taskPlugin.pluginPackage' with pluginPackageResolver and keeps the original value.
LoadedSpecifier(packageName) ==
    [pluginPackage |-> ResolvePackage(packageName), pluginPackageRoot |-> Undefined,
     original |-> packageName]

\* ConfigurationFile.loadConfigurationFileForProjectAsync: a newly loaded object
LoadedConfiguration(file) ==
    [heftPlugins |-> [k \in 1..Len(file.heftPlugins) |-> LoadedSpecifier(file.heftPlugins[k])],
     phasesByName |->
        [p \in 1..Len(file.phasesByName) |->
            [t \in 1..Len(file.phasesByName[p]) |->
                IF file.phasesByName[p][t] = Undefined THEN Undefined
                ELSE Some(LoadedSpecifier(file.phasesByName[p][t][1]))]]]

\* pluginSpecifier.pluginPackageRoot = pluginSpecifier.pluginPackage;
\* pluginSpecifier.pluginPackage = getPropertyOriginalValue(pluginSpecifier, 'pluginPackage')
AddOriginalData(specifier) ==
    [specifier EXCEPT !.pluginPackageRoot = Some(specifier.pluginPackage),
                      !.pluginPackage = specifier.original]

\* The loop over every entry of heftPlugins and every taskPlugin of every task
AddOriginalDataToAll(object) ==
    [heftPlugins |-> [k \in 1..Len(object.heftPlugins) |-> AddOriginalData(object.heftPlugins[k])],
     phasesByName |->
        [p \in 1..Len(object.phasesByName) |->
            [t \in 1..Len(object.phasesByName[p]) |->
                IF object.phasesByName[p][t] = Undefined THEN Undefined
                ELSE Some(AddOriginalData(object.phasesByName[p][t][1]))]]]

\* The call up to its await: the static loader is constructed if it is not set,
\* and the loader answers with the object it has cached or with a newly loaded one.
LoadBegin(cached) ==
    /\ Len(loads) < MaxLoads
    /\ cached => loaderCache # Undefined
    /\ heftConfigFileLoader' = TRUE
    /\ loaderConstructions' = IF heftConfigFileLoader THEN loaderConstructions
                              ELSE loaderConstructions + 1
    /\ IF cached
       THEN /\ loads' = Append(loads, [pc |-> "awaiting", object |-> loaderCache[1]])
            /\ UNCHANGED <<configObjects, loaderCache>>
       ELSE /\ configObjects' = Append(configObjects, LoadedConfiguration(configFile))
            /\ loaderCache' = Some(Len(configObjects) + 1)
            /\ loads' = Append(loads, [pc |-> "awaiting", object |-> Len(configObjects) + 1])
    /\ UNCHANGED <<configFile, timelineVars, hookVars, engineVars>>

\* The call after its await: the original data is added to every plugin
\* specifier of the object and the object is returned.
LoadResume(c) ==
    /\ c \in 1..Len(loads)
    /\ loads[c].pc = "awaiting"
    /\ configObjects' = [configObjects EXCEPT ![loads[c].object] = AddOriginalDataToAll(@)]
    /\ loads' = [loads EXCEPT ![c].pc = "returned"]
    /\ UNCHANGED <<configFile, heftConfigFileLoader, loaderConstructions, loaderCache,
                   timelineVars, hookVars, engineVars>>

InitConfig ==
    /\ configFile \in ConfigFiles
    /\ heftConfigFileLoader = FALSE
    /\ loaderConstructions = 0
    /\ loaderCache = Undefined
    /\ configObjects = <<>>
    /\ loads = <<>>

NextConfig ==
    \/ \E cached \in BOOLEAN : LoadBegin(cached)
    \/ \E c \in 1..MaxLoads : LoadResume(c)

(***************************************************************************)
(* Initial states and specifications.                                      *)
(***************************************************************************)
\* No engine cycle and no configuration load is part of the run.
NoEngine == InitEngine({[o \in EngineOps |-> {}]}, {1})
NoConfig ==
    /\ configFile = [heftPlugins |-> <<>>, phasesByName |-> <<>>]
    /\ heftConfigFileLoader = FALSE
    /\ loaderConstructions = 0
    /\ loaderCache = Undefined
    /\ configObjects = <<>>
    /\ loads = <<>>

InitHooks ==
    /\ NoEngine
    /\ NoConfig
    /\ handlers = <<>>
    /\ hookPc = "idle"
    /\ hookIdx = 1
    /\ operations = {}
    /\ initialOperations = {}
    /\ context = [isInitial |-> TRUE]
    /\ calls = <<>>

\* The state of the plugin after construction, given the result and the console.
InitTimeline(results, widths) ==
    /\ operationResults \in results
    /\ consoleWidth \in widths
    /\ tapped = FALSE
    /\ pc = "idle"
    /\ opIdx = 1
    /\ data = <<>>
    /\ longestNameLength = 0
    /\ longestDurationLength = 0
    /\ allStart = PosInfinity
    /\ allEnd = NegInfinity
    /\ workDuration = Num(0)
    /\ durationByPhase = <<>>
    /\ busyCpus = <<>>
    /\ lastCounts = <<>>
    /\ out = <<>>
    /\ error = "none"

\* Stopwatches: never started, started and not stopped, or stopped at or after the start.
Stopwatches(times) ==
    {<<Undefined, Undefined>>}
    \cup {<<Some(s), Undefined>> : s \in times}
    \cup {<<Some(w[1]), Some(w[2])>> : w \in {v \in times \X times : v[1] <= v[2]}}

OperationResults(silents, names, phases, watches) ==
    {[silent |-> si, name |-> na, phase |-> ph, startTime |-> w[1], endTime |-> w[2],
      status |-> "Success"] :
        si \in silents, na \in names, ph \in phases, w \in watches}

\* Results for the parallelism reconstruction: stopped, non-silent operations.
ParResults ==
    SeqsUpTo(OperationResults({FALSE}, {Some(1)}, {NoPhase},
                 {w \in Stopwatches(1..MaxTime) : w[2] # Undefined}), MaxOps)

\* Results for the gather loop: every kind of runner, stopwatch and phase.
GatherTimes == {0, 1, 3}
GatherResults ==
    SeqsUpTo(OperationResults(BOOLEAN, {Some(1)}, Phases \cup {NoPhase},
                 Stopwatches(GatherTimes)), GatherOps)

\* Results for the chart: names short, as long as the chart and longer.
ChartTimes == {1, 2, 4}
ChartNames == {Some(2), Some(102), Some(110)}
ChartResults ==
    SeqsUpTo(OperationResults({FALSE}, ChartNames, {NoPhase},
                 {<<Undefined, Undefined>>}
                 \cup {w \in Stopwatches(ChartTimes) : w[2] # Undefined}), ChartOps)

InitPar == InitTimeline(ParResults, {Undefined}) /\ InitHooks
InitGather == InitTimeline(GatherResults, {Undefined}) /\ InitHooks
InitChart == InitTimeline(ChartResults, {Undefined, Some(20)}) /\ InitHooks
InitNoResult == InitTimeline({<<>>}, {Undefined}) /\ InitHooks
Init == InitTimeline(GatherResults, {Undefined, Some(20)}) /\ InitHooks

\* The result of three operations A (0-3 s), B (3-10 s, after A) and C (1-4 s),
\* timestamps in milliseconds, in every iteration order of the map.
ScenarioOperation(startTime, endTime) ==
    [silent |-> FALSE, name |-> Some(1), phase |-> NoPhase,
     startTime |-> Some(startTime), endTime |-> Some(endTime), status |-> "Success"]
ScenarioA == ScenarioOperation(0, 3000)
ScenarioB == ScenarioOperation(3000, 10000)
ScenarioC == ScenarioOperation(1000, 4000)
ScenarioResults ==
    {q \in [1..3 -> {ScenarioA, ScenarioB, ScenarioC}] :
        {q[k] : k \in 1..3} = {ScenarioA, ScenarioB, ScenarioC}}
InitScenario == InitTimeline(ScenarioResults, {Undefined, Some(40), Some(80)}) /\ InitHooks

NextTimeline ==
    \/ Apply
    \/ AfterExecuteOperations
    \/ GatherOperation
    \/ SortAndHeader
    \/ PrintRow
    \/ PrintSummary

NextHooks ==
    \/ \E h \in HandlerKinds : Tap(h)
    \/ \E ops \in SUBSET OperationNames, ctx \in Contexts : CallCreateOperations(ops, ctx)
    \/ RunTap
    \/ ReturnOperations
    \/ NextCycle

Next == NextTimeline \/ NextHooks \/ NextEngine \/ NextConfig

Spec == Init /\ [][Next]_vars
SpecPar == InitPar /\ [][NextTimeline]_vars
SpecGather == InitGather /\ [][NextTimeline]_vars
SpecChart == InitChart /\ [][NextTimeline]_vars
SpecHooks == InitNoResult /\ [][NextHooks]_vars
SpecScenario == InitScenario /\ [][NextTimeline]_vars

InitEngineCycle ==
    /\ InitTimeline({<<>>}, {Undefined})
    /\ InitEngine(DependencyGraphs, {1, 2})
    /\ NoConfig
    /\ handlers = <<>>
    /\ hookPc = "idle"
    /\ hookIdx = 1
    /\ operations = {}
    /\ initialOperations = {}
    /\ context = [isInitial |-> TRUE]
    /\ calls = <<>>
SpecEngine == InitEngineCycle /\ [][NextEngine]_vars

InitConfigLoads ==
    /\ InitTimeline({<<>>}, {Undefined})
    /\ NoEngine
    /\ InitConfig
    /\ handlers = <<>>
    /\ hookPc = "idle"
    /\ hookIdx = 1
    /\ operations = {}
    /\ initialOperations = {}
    /\ context = [isInitial |-> TRUE]
    /\ calls = <<>>
SpecConfig == InitConfigLoads /\ [][NextConfig]_vars

(***************************************************************************)
(* Vocabulary of the properties.                                           *)
(***************************************************************************)
\* The handler has left the row loop normally.
RowsDone == pc = "done"
\* The gather loop is over.
GatherDone == pc \in {"rows", "done", "threw"}

\* The entries of the result map that the gather loop records, in map order.
GatheredResults == SelectSeq(operationResults, Gathered)
\* Their intervals [startTime, endTime], in milliseconds.
GatheredIntervals ==
    [k \in 1..Len(GatheredResults) |->
        [startTime |-> GatheredResults[k].startTime[1],
         endTime   |-> GatheredResults[k].endTime[1]]]

\* Number of records in progress at instant t, an interval ending at t not
\* counting as in progress at t (half-open) or counting (closed).
InProgressHalfOpen(records, t) ==
    Cardinality({k \in 1..Len(records) : records[k].startTime <= t /\ t < records[k].endTime})
InProgressClosed(records, t) ==
    Cardinality({k \in 1..Len(records) : records[k].startTime <= t /\ t <= records[k].endTime})

SetMax(S) == IF S = {} THEN 0 ELSE CHOOSE m \in S : \A x \in S : x <= m
SetMin(S) == CHOOSE m \in S : \A x \in S : m <= x

Instants(records) ==
    {records[k].startTime : k \in 1..Len(records)}
    \cup {records[k].endTime : k \in 1..Len(records)}

MaxOverlapHalfOpen(records) ==
    SetMax({InProgressHalfOpen(records, t) : t \in Instants(records)})
MaxOverlapClosed(records) ==
    SetMax({InProgressClosed(records, t) : t \in Instants(records)})

AllPositiveLength(records) ==
    \A k \in 1..Len(records) : records[k].startTime < records[k].endTime

\* The value of the first line of the given kind that was written.
HasLine(kind) == \E k \in 1..Len(out) : out[k].kind = kind
LineVal(kind) == out[CHOOSE k \in 1..Len(out) : out[k].kind = kind].val

(***************************************************************************)
(* C1, as stated: for every set of gathered intervals [startTime, endTime] *)
(* with startTime <= endTime, in whatever order the map iterates them,     *)
(* the reported maximum parallelism (busyCpus.length) is the maximum       *)
(* number of simultaneously overlapping intervals -- whether intervals     *)
(* that touch at an instant are read as overlapping or as not overlapping. *)
(***************************************************************************)
C1_MaxParallelismIsMaxOverlap ==
    RowsDone =>
        \/ Len(busyCpus) = MaxOverlapClosed(GatheredIntervals)
        \/ Len(busyCpus) = MaxOverlapHalfOpen(GatheredIntervals)

(***************************************************************************)
(* C1, amended: busyCpus.length is the maximum number of gathered          *)
(* intervals in progress at one instant, an interval that ends at t not    *)
(* being in progress together with one that starts at t, whenever every    *)
(* gathered interval has startTime < endTime; with zero-length intervals   *)
(* it lies between that number and the number of closed intervals sharing  *)
(* an instant (and depends on the iteration order of the map).             *)
(***************************************************************************)
C1_MaxParallelismAmended ==
    RowsDone =>
        /\ MaxOverlapHalfOpen(GatheredIntervals) <= Len(busyCpus)
        /\ Len(busyCpus) <= MaxOverlapClosed(GatheredIntervals)
        /\ AllPositiveLength(GatheredIntervals) =>
               Len(busyCpus) = MaxOverlapHalfOpen(GatheredIntervals)

\* Three mutually overlapping intervals of positive length, and two that touch.
C1_Witness ==
    /\ RowsDone
    /\ Len(busyCpus) = 3
    /\ AllPositiveLength(GatheredIntervals)

C1_WitnessTouching ==
    /\ RowsDone
    /\ Len(GatheredIntervals) = 2
    /\ AllPositiveLength(GatheredIntervals)
    /\ GatheredIntervals[1].endTime = GatheredIntervals[2].startTime
    /\ Len(busyCpus) = 1

(***************************************************************************)
(* C2: for every execution result, the average parallelism that is         *)
(* reported (workDuration / allDurationSeconds) is >= 0 and <= the         *)
(* reported maximum parallelism (busyCpus.length).                         *)
(***************************************************************************)
C2_AvgWithinMax ==
    RowsDone =>
        /\ JsLe(Num(0), LineVal("avgParallelism"))
        /\ JsLe(LineVal("avgParallelism"), LineVal("maxParallelism"))

\* The same bound, for the results whose wall-clock duration is not zero.
C2_AvgWithinMaxNonZeroDuration ==
    (RowsDone /\ allDuration # Num(0)) =>
        /\ JsLe(Num(0), LineVal("avgParallelism"))
        /\ JsLe(LineVal("avgParallelism"), LineVal("maxParallelism"))

(***************************************************************************)
(* C3: an operation contributes a timeline record if and only if its       *)
(* runner is not silent and its stopwatch has a start and an end           *)
(* timestamp, whatever numbers the timestamps are.                         *)
(***************************************************************************)
HasBothTimestamps(op) == op.startTime # Undefined /\ op.endTime # Undefined
Eligible(op) == ~op.silent /\ HasBothTimestamps(op)

C3_RecordIffEligible ==
    GatherDone => Len(data) = Len(SelectSeq(operationResults, Eligible))

(***************************************************************************)
(* C5: with zero gathered operations the handler skips rendering: nothing  *)
(* that it writes is derived from the Infinity / -Infinity sentinels of    *)
(* allStart and allEnd, and no division by a non-finite duration is made.  *)
(***************************************************************************)
C5_EmptyResultPrintsNoSentinel ==
    (RowsDone /\ data = <<>>) =>
        /\ \A k \in 1..Len(out) : IsFinite(out[k].val)
        /\ IsFinite(allDurationSeconds)

(***************************************************************************)
(* C6: when allDuration is 0 no division by zero is made: neither the      *)
(* column indices of a row nor the average parallelism are the NaN of 0/0. *)
(***************************************************************************)
C6_ZeroDurationNoDivisionByZero ==
    (data # <<>> /\ allDuration = Num(0)) =>
        /\ \A k \in 1..Len(lastCounts) : ~IsNaN(lastCounts[k])
        /\ RowsDone => ~IsNaN(LineVal("avgParallelism"))

(***************************************************************************)
(* C7: when chartWidth <= 0 no negative-length fill is requested: for      *)
(* every row the repeat counts startIdx, endIdx - startIdx + 1 and         *)
(* chartWidth - endIdx are all >= 0.                                       *)
(***************************************************************************)
C7_NoNegativeFill ==
    (GatherDone /\ chartWidth <= 0) =>
        \A k \in 1..Len(lastCounts) : ~JsLt(lastCounts[k], Num(0))

(***************************************************************************)
(* C8: the handler tapped on afterExecuteOperations never raises a failure *)
(* to the caller of the hook.                                              *)
(***************************************************************************)
C8_HandlerNeverThrows == pc # "threw"

\* The handler raises RangeError only through a negative fill.
C8_RangeErrorOnlyFromNegativeFill ==
    error = "RangeError" => \E k \in 1..3 : JsLt(lastCounts[k], Num(0))

(***************************************************************************)
(* C4: after the gather loop over a non-empty gathered set, allStart is    *)
(* the minimum startTime, allEnd the maximum endTime, allDuration their    *)
(* difference and workDuration the sum of endTime - startTime over exactly *)
(* the gathered operations; workDuration never exceeds the wall-clock      *)
(* duration when the operations are pairwise non-overlapping.              *)
(***************************************************************************)
RECURSIVE SumMillis(_)
SumMillis(intervals) ==
    IF intervals = <<>> THEN 0
    ELSE (intervals[1].endTime - intervals[1].startTime) + SumMillis(Tail(intervals))

\* Equality of two finite numbers by value
JsEq(a, b) == IsFinite(a) /\ IsFinite(b) /\ a.n * b.d = b.n * a.d

StartTimes(intervals) == {intervals[k].startTime : k \in 1..Len(intervals)}
EndTimes(intervals) == {intervals[k].endTime : k \in 1..Len(intervals)}

PairwiseNonOverlapping(intervals) ==
    \A j, k \in 1..Len(intervals) :
        j # k => \/ intervals[j].endTime <= intervals[k].startTime
                 \/ intervals[k].endTime <= intervals[j].startTime

C4_GatherAggregates ==
    (GatherDone /\ GatheredIntervals # <<>>) =>
        /\ allStart = Num(SetMin(StartTimes(GatheredIntervals)))
        /\ allEnd = Num(SetMax(EndTimes(GatheredIntervals)))
        /\ allDuration = Num(SetMax(EndTimes(GatheredIntervals))
                             - SetMin(StartTimes(GatheredIntervals)))
        /\ JsEq(workDuration, Rat(SumMillis(GatheredIntervals), 1000))
        /\ PairwiseNonOverlapping(GatheredIntervals) =>
               JsLe(workDuration, allDurationSeconds)

\* Two gathered operations overlap and the work exceeds the wall clock.
C4_Witness ==
    /\ GatherDone
    /\ Len(GatheredIntervals) = 2
    /\ ~PairwiseNonOverlapping(GatheredIntervals)
    /\ JsLt(allDurationSeconds, workDuration)

(***************************************************************************)
(* C10: the total of every phase is the sum of the durations of the        *)
(* gathered operations associated with it; operations with no phase add    *)
(* to no total but count in workDuration; 'BY PHASE:' is printed if and    *)
(* only if some gathered operation has an associated phase.                *)
(***************************************************************************)
InPhase(p) == SelectSeq(GatheredResults, LAMBDA op : op.phase = p)
MillisOf(results) ==
    SumMillis([k \in 1..Len(results) |->
                  [startTime |-> results[k].startTime[1],
                   endTime   |-> results[k].endTime[1]]])
PhaseTotal(p) ==
    durationByPhase[CHOOSE k \in 1..Len(durationByPhase) : durationByPhase[k].phase = p].total

C10_PhaseTotals ==
    GatherDone =>
        /\ \A k \in 1..Len(durationByPhase) : durationByPhase[k].phase \in Phases
        /\ \A j, k \in 1..Len(durationByPhase) :
               durationByPhase[j].phase = durationByPhase[k].phase => j = k
        /\ \A p \in Phases :
               /\ PhaseHas(durationByPhase, p) <=> InPhase(p) # <<>>
               /\ PhaseHas(durationByPhase, p) =>
                      JsEq(PhaseTotal(p), Rat(MillisOf(InPhase(p)), 1000))
        /\ JsEq(workDuration, Rat(MillisOf(GatheredResults), 1000))
        /\ RowsDone =>
               /\ HasLine("byPhase") <=> \E p \in Phases : InPhase(p) # <<>>
               /\ \A p \in Phases : HasLine(p) <=> InPhase(p) # <<>>
               /\ \A p \in Phases : HasLine(p) => LineVal(p) = PhaseTotal(p)

\* Two operations of one phase, each of a positive duration, are totalled.
C10_Witness ==
    /\ RowsDone
    /\ \E p \in Phases :
          /\ Len(InPhase(p)) = 2
          /\ \A k \in 1..2 : InPhase(p)[k].startTime[1] < InPhase(p)[k].endTime[1]
          /\ HasLine(p)

\* An operation with no phase counts in workDuration and in no phase total.
C10_WitnessNoPhase ==
    /\ RowsDone
    /\ Len(InPhase(NoPhase)) = 1
    /\ Len(GatheredResults) = 2
    /\ JsLt(Num(0), workDuration)
    /\ HasLine("byPhase")

(***************************************************************************)
(* C9: createOperations is an ordered pipeline: the taps h1..hn run one at *)
(* a time in registration order, each is given the set the previous one    *)
(* returned and the unmodified context c of the call, and the call         *)
(* resolves with hn(...h2(h1(S, c), c)..., c), a function of S, c and the  *)
(* list of taps alone (so it is the same in every cycle that repeats them).*)
(***************************************************************************)
RECURSIVE Pipeline(_, _, _, _)
Pipeline(hs, k, ops, ctx) ==
    IF k = 0 THEN ops
    ELSE RunHandler(hs[k], Pipeline(hs, k - 1, ops, ctx), ctx)

C9_OrderedPipeline ==
    /\ hookPc \in {"running", "returned"} =>
          /\ Len(calls) = hookIdx - 1
          /\ \A k \in 1..Len(calls) :
                /\ calls[k].handler = k
                /\ calls[k].context = context
                /\ calls[k].given = Pipeline(handlers, k - 1, initialOperations, context)
    /\ hookPc = "returned" =>
          /\ Len(calls) = Len(handlers)
          /\ operations = Pipeline(handlers, Len(handlers), initialOperations, context)

\* Three taps whose order decides the result have run over a non-empty set.
C9_Witness ==
    /\ hookPc = "returned"
    /\ handlers = <<"addA", "addBIfA", "dropA">>
    /\ initialOperations = {"c"}
    /\ operations = {"b", "c"}

(***************************************************************************)
(* C11: for the result of A (0-3 s), B (3-10 s) and C (1-4 s), all         *)
(* non-silent and successful, the report counts all three operations, A    *)
(* with its start timestamp 0 included: maximum parallelism 2, total work  *)
(* 13 s, wall clock 10 s and average parallelism 13 / 10 (printed 1.3).    *)
(***************************************************************************)
C11_ScenarioReport ==
    RowsDone =>
        /\ Len(data) = 3
        /\ LineVal("maxParallelism") = Num(2)
        /\ JsEq(LineVal("totalWork"), Num(13))
        /\ JsEq(LineVal("wallClock"), Num(10))
        /\ JsEq(LineVal("avgParallelism"), Rat(13, 10))

\* What is reported for the scenario: A is not counted.
C11_ScenarioReportWithoutA ==
    RowsDone =>
        /\ Len(data) = 2
        /\ LineVal("maxParallelism") = Num(2)
        /\ JsEq(LineVal("totalWork"), Num(10))
        /\ JsEq(LineVal("wallClock"), Num(9))
        /\ JsEq(LineVal("avgParallelism"), Rat(10, 9))

(***************************************************************************)
(* C13: when allDuration > 0 and chartWidth > 0, every row has             *)
(* 0 <= startIdx <= endIdx <= chartWidth with                              *)
(* startIdx = floor((startTime - allStart) * chartWidth / allDuration) and *)
(* endIdx = floor((endTime - allStart) * chartWidth / allDuration); it     *)
(* shows startIdx fillers, endIdx - startIdx + 1 >= 1 status glyphs and    *)
(* chartWidth - endIdx fillers; the earliest start has startIdx = 0 and    *)
(* the latest end has endIdx = chartWidth.                                 *)
(***************************************************************************)
Rows == SelectSeq(out, LAMBDA line : line.kind = "row")
ChartDrawable == JsLt(Num(0), allDuration) /\ chartWidth > 0
\* The column of an instant, in integer arithmetic
Column(time) == ((time - allStart.n) * chartWidth) \div allDuration.n

C13_RowIndices ==
    (pc \in {"rows", "done", "threw"} /\ ChartDrawable) =>
        /\ pc # "threw"
        /\ Len(Rows) = opIdx - 1
        /\ \A k \in 1..Len(Rows) :
              LET startIdx == Column(data[k].startTime)
                  endIdx   == Column(data[k].endTime)
              IN  /\ 0 <= startIdx /\ startIdx <= endIdx /\ endIdx <= chartWidth
                  /\ Rows[k].fills = <<startIdx, endIdx - startIdx + 1, chartWidth - endIdx>>
                  /\ Rows[k].fills[2] >= 1
                  /\ Num(data[k].startTime) = allStart => startIdx = 0
                  /\ Num(data[k].endTime) = allEnd => endIdx = chartWidth

\* A zero-length operation that starts after the first one gets one glyph
\* between fillers, next to a row of an operation of positive length.
C13_Witness ==
    /\ RowsDone
    /\ ChartDrawable
    /\ Len(Rows) = 2
    /\ \E k \in 1..2 :
          /\ data[k].startTime = data[k].endTime
          /\ Rows[k].fills[1] > 0
          /\ Rows[k].fills[2] = 1

(***************************************************************************)
(* C14, as stated: when allDuration > 0 and chartWidth > 0 every row has   *)
(* chartWidth + 1 chart glyphs, each full line is maxWidth - 1 characters  *)
(* long, and rows are written in non-decreasing startTime order.           *)
(***************************************************************************)
RowsInStartOrder ==
    /\ \A j, k \in 1..Len(data) : j < k => data[j].startTime <= data[k].startTime
    /\ \A t \in StartTimes(GatheredIntervals) :
           Cardinality({k \in 1..Len(data) : data[k].startTime = t})
           = Cardinality({k \in 1..Len(GatheredIntervals) :
                             GatheredIntervals[k].startTime = t})
    /\ \A k \in 1..Len(Rows) : Rows[k].val = data[k].duration

C14_RowWidthMaxWidthMinusOne ==
    (pc \in {"rows", "done"} /\ ChartDrawable) =>
        /\ \A k \in 1..Len(Rows) :
              /\ Rows[k].fills[1] + Rows[k].fills[2] + Rows[k].fills[3] = chartWidth + 1
              /\ Rows[k].width = maxWidth - 1
        /\ RowsInStartOrder

(***************************************************************************)
(* C14, amended: every row has chartWidth + 1 chart glyphs and each full   *)
(* line is maxWidth characters long (name, space, chart, space, duration   *)
(* and 's'), as wide as the rules; rows are in non-decreasing startTime    *)
(* order.                                                                  *)
(***************************************************************************)
C14_RowWidthAmended ==
    (pc \in {"rows", "done"} /\ ChartDrawable) =>
        /\ \A k \in 1..Len(Rows) :
              /\ Rows[k].fills[1] + Rows[k].fills[2] + Rows[k].fills[3] = chartWidth + 1
              /\ Rows[k].width = maxWidth
              /\ Rows[k].width = LineVal("rule").n
        /\ RowsInStartOrder

\* Two rows were written for operations that the map iterates latest start first.
C14_Witness ==
    /\ RowsDone
    /\ ChartDrawable
    /\ Len(Rows) = 2
    /\ Len(operationResults) = 2
    /\ operationResults[1].startTime[1] > operationResults[2].startTime[1]
    /\ data[1].endTime # data[2].endTime

(***************************************************************************)
(* C12: if operation D ends in Failure and operation E depends on D, then  *)
(* E goes from Ready directly to Blocked without ever being Executing, its *)
(* status never changes again in the cycle, and onOperationStatusChanged   *)
(* fires exactly once for E (for Ready -> Blocked), its handlers run       *)
(* inline in registration order.                                           *)
(***************************************************************************)
FiredFor(o) == SelectSeq(fired, LAMBDA f : f.op = o)

\* Every call of the hook ran every tap, in registration order, before the next call.
HandlersRanInline ==
    /\ Len(statusEvents) = Len(fired) * Len(statusHandlers)
    /\ \A i \in 1..Len(fired), k \in 1..Len(statusHandlers) :
          statusEvents[(i - 1) * Len(statusHandlers) + k] =
              [handler |-> statusHandlers[k], op |-> fired[i].op, status |-> fired[i].status]

C12_FailureBlocksDependent ==
    /\ HandlersRanInline
    /\ \A o \in EngineOps :
          status[o] = IF FiredFor(o) = <<>> THEN "Ready"
                      ELSE FiredFor(o)[Len(FiredFor(o))].status
    /\ \A d, e \in EngineOps :
          (d \in dependencies[e] /\ status[d] = "Failure") =>
              /\ status[e] \in {"Ready", "Blocked"}
              /\ FiredFor(e) \in {<<>>, <<[op |-> e, status |-> "Blocked"]>>}
              /\ status[e] = "Blocked" <=> FiredFor(e) # <<>>
              /\ enginePc = "finished" => status[e] = "Blocked"

\* D failed, E was blocked, the cycle is over and two taps saw each change.
C12_Witness ==
    /\ enginePc = "finished"
    /\ Len(statusHandlers) = 2
    /\ statusHandlers[1] # statusHandlers[2]
    /\ \E d, e \in EngineOps :
          /\ d \in dependencies[e]
          /\ status[d] = "Failure"
          /\ status[e] = "Blocked"
          /\ Len(FiredFor(e)) = 1

(***************************************************************************)
(* C15: after every call of loadHeftConfigurationFileForProjectAsync, the  *)
(* first one or a repeated one that is given the same configuration object *)
(* by the loader, every plugin specifier of the returned configuration has *)
(* pluginPackage equal to the package name written in the config file and  *)
(* pluginPackageRoot equal to the resolved root folder of the package; the *)
(* loader is constructed at most once.                                     *)
(***************************************************************************)
SpecifierRight(specifier, packageName) ==
    /\ specifier.pluginPackage = packageName
    /\ specifier.pluginPackageRoot = Some(ResolvePackage(packageName))

ConfigurationRight(object) ==
    /\ \A k \in 1..Len(object.heftPlugins) :
          SpecifierRight(object.heftPlugins[k], configFile.heftPlugins[k])
    /\ \A p \in 1..Len(object.phasesByName) :
          \A t \in 1..Len(object.phasesByName[p]) :
              object.phasesByName[p][t] # Undefined =>
                  SpecifierRight(object.phasesByName[p][t][1], configFile.phasesByName[p][t][1])

ReturnedLoads(object) ==
    {c \in 1..Len(loads) : loads[c].pc = "returned" /\ loads[c].object = object}

C15_PluginSpecifiersAfterEveryCall ==
    /\ loaderConstructions <= 1
    /\ \A c \in 1..Len(loads) :
          loads[c].pc = "returned" => ConfigurationRight(configObjects[loads[c].object])

\* What holds of the code: the loader is constructed once, and an object is
\* right exactly while one call has returned it.
C15_RightWhileReturnedOnce ==
    /\ loaderConstructions <= 1
    /\ heftConfigFileLoader <=> loaderConstructions = 1
    /\ \A o \in 1..Len(configObjects) :
          (Cardinality(ReturnedLoads(o)) = 1) => ConfigurationRight(configObjects[o])

====
